---------------------------- MODULE Spec2Model ----------------------------
(* A state-machine model of src/editor/CSSInlineEditor.js: the inline      *)
(* "quick edit" provider for CSS rules (htmlToCSSProvider), its per-widget  *)
(* closure state, the stylesheet dropdown, rule creation (_addRule) and the *)
(* routing of the global "new rule" command (_handleNewRule).               *)
(*                                                                          *)
(* Every provider call that passes the early-outs creates one session; the  *)
(* closure variables of that call are modelled as functions over the        *)
(* session number.  Handlers run to completion: one action is one handler   *)
(* together with everything it calls synchronously.                         *)
EXTENDS Integers, Sequences, FiniteSets, TLC

(***************************************************************************)
(* Bounds of the model                                                     *)
(***************************************************************************)
MaxWidgets == 2      \* provider calls that pass the early-outs
MaxSheets == 2       \* stylesheets the file index may report
MaxCreates == 2      \* rule-creation requests issued in one run
MaxWork == 3         \* accepted provider calls and rule creations of one run, together
MaxLen == 3          \* characters of an attribute value handed to _getSelectorName

W == 1..MaxWidgets
Paths == 1..MaxSheets

\* An object reference is a sequence: NULL, or Ref(x) holding the object x
NULL == <<>>
Ref(x) == <<x>>
Deref(r) == r[1]

NoWidget == 0        \* "no inline editor", where a widget is named by its session
NoPath == 0          \* an absent (falsy) data-path
HostDoc == 0         \* the host (markup) document, as a range's document

Min(a, b) == IF a < b THEN a ELSE b
Max(a, b) == IF a < b THEN b ELSE a

(***************************************************************************)
(* JavaScript string primitives used by _getSelectorName.  Strings are     *)
(* sequences of one-character strings; JavaScript indices are 0-based.     *)
(***************************************************************************)
substr(s, start, length) ==
    SubSeq(s, Min(start, Len(s)) + 1, Min(Len(s), start + length))

lastIndexOf(s, c) ==
    LET I == {i \in 1..Len(s) : s[i] = c}
    IN  IF I = {} THEN -1 ELSE (CHOOSE i \in I : \A j \in I : j <= i) - 1

indexOf(s, c, fromIndex) ==
    LET I == {i \in 1..Len(s) : s[i] = c /\ i - 1 >= fromIndex}
    IN  IF I = {} THEN -1 ELSE (CHOOSE i \in I : \A j \in I : i <= j) - 1

\* String.prototype.substring clamps both indices and swaps them if needed
substring(s, indexStart, indexEnd) ==
    LET a == Max(0, Min(indexStart, Len(s)))
        b == Max(0, Min(indexEnd, Len(s)))
    IN  SubSeq(s, Min(a, b) + 1, Max(a, b))

(***************************************************************************)
(* _getSelectorName (lines 58-94)                                          *)
(***************************************************************************)
TAG_NAME == "tagName"
CLOSING_TAG == "closingTag"
ATTR_NAME == "attr.name"
ATTR_VALUE == "attr.value"

classSelector(tagInfo) ==
    LET attributeValue == tagInfo.attr.value
        startIndex == lastIndexOf(substr(attributeValue, 0, tagInfo.position.offset), " ")
        endIndex == indexOf(attributeValue, " ", tagInfo.position.offset)
        selectorName == <<".">> \o substring(attributeValue,
                            IF startIndex = -1 THEN 0 ELSE startIndex + 1,
                            IF endIndex = -1 THEN Len(attributeValue) ELSE endIndex)
    IN  IF selectorName = <<".">> THEN <<>> ELSE selectorName

\* Faulty variant: the id is cut at the cursor
_getSelectorName_IdToCursor(tagInfo) ==
    IF tagInfo.position.tokenType = TAG_NAME \/ tagInfo.position.tokenType = CLOSING_TAG
    THEN tagInfo.tagName
    ELSE IF tagInfo.position.tokenType = ATTR_NAME \/ tagInfo.position.tokenType = ATTR_VALUE
    THEN IF tagInfo.attr.name = "class" THEN classSelector(tagInfo)
         ELSE IF tagInfo.attr.name = "id"
         THEN <<"#">> \o substr(tagInfo.attr.value, 0, tagInfo.position.offset)
         ELSE <<>>
    ELSE <<>>

_getSelectorName(tagInfo) ==
    IF tagInfo.position.tokenType = TAG_NAME \/ tagInfo.position.tokenType = CLOSING_TAG
    THEN tagInfo.tagName
    ELSE IF tagInfo.position.tokenType = ATTR_NAME \/ tagInfo.position.tokenType = ATTR_VALUE
    THEN IF tagInfo.attr.name = "class" THEN classSelector(tagInfo)
         ELSE IF tagInfo.attr.name = "id" THEN <<"#">> \o tagInfo.attr.value
         ELSE <<>>
    ELSE <<>>

(***************************************************************************)
(* The host editor: a two-line markup document                             *)
(*     <p class="a  b"></p>                                                 *)
(*     <p>                                                                  *)
(* seen through HTMLUtils.getTagInfo at four positions.                    *)
(***************************************************************************)
TagInfo(tokenType, tagName, attrName, attrValue, offset) ==
    [tagName |-> tagName, attr |-> [name |-> attrName, value |-> attrValue],
     position |-> [tokenType |-> tokenType, offset |-> offset]]

Positions == {[line |-> 0, ch |-> 1], [line |-> 0, ch |-> 12],
              [line |-> 0, ch |-> 18], [line |-> 1, ch |-> 1]}

getTagInfo(pos) ==
    IF pos = [line |-> 0, ch |-> 1]
        THEN TagInfo(TAG_NAME, <<"p">>, "", <<>>, 0)
    ELSE IF pos = [line |-> 0, ch |-> 12]      \* between the two spaces of "a  b"
        THEN TagInfo(ATTR_VALUE, <<"p">>, "class", <<"a", " ", " ", "b">>, 2)
    ELSE IF pos = [line |-> 0, ch |-> 18]
        THEN TagInfo(CLOSING_TAG, <<"p">>, "", <<>>, 0)
    ELSE TagInfo(TAG_NAME, <<"p">>, "", <<>>, 0)

PosLE(p, q) == p.line < q.line \/ (p.line = q.line /\ p.ch <= q.ch)

\* The arguments of one provider call: the language at the selection, the
\* selection and the position handed in (usually the selection end).
ProviderInputs ==
    {inp \in [language : {"html", "css"}, start : Positions, end : Positions, pos : Positions] :
        PosLE(inp.start, inp.end) /\ inp.pos \in {inp.start, inp.end}}


(***************************************************************************)
(* State.  Module-level: _newRuleHandlers, the enabled flag of _newRuleCmd. *)
(* Per provider call (closure variables of htmlToCSSProvider): result,      *)
(* selectorName, cssInlineEditor, rules, cssFileInfos, $newRuleButton,      *)
(* $dropdown, dropdownEventHandler.  Environment: the two asynchronous      *)
(* queries of a session, the document loads in flight, the click listeners  *)
(* on the html element, the open pop-ups, the DOM focus, the widgets the   *)
(* host has closed.  ev describes the handler that ran last.                *)
(* Menus.closeAll() (line 221) acts on the application menus only, which    *)
(* are no part of this state.                                               *)
(***************************************************************************)
VARIABLES
    sessions,               \* provider calls that passed the early-outs
    result,                 \* the $.Deferred each call returns: its state and value
    lookup,                 \* CSSUtils.findMatchingRules request of the call
    selectorName,
    cssInlineEditor,        \* NULL, or the widget: ranges, selected range, caret
    rules,                  \* rules.length, as the list callback reads it
    listQuery,              \* FileIndexManager.getFileInfoList request (line 302)
    cssFileInfos,
    newRuleButton,          \* NULL, or the set of CSS classes of $newRuleButton
    dropdown,               \* $dropdown: NULL, or the rendered list items
    dropdownEventHandler,
    popUps,                 \* sessions whose dropdown is an open pop-up
    htmlClick,              \* _closeDropdown listeners on $("html"), in order
    focused,                \* the widget holding the DOM focus, 0 when none does
    closed,                 \* widgets the host has closed and removed from the page
    cmdEnabled,             \* _newRuleCmd's enabled flag
    newRuleHandlers,        \* _newRuleHandlers
    creates,                \* every _addRule call, with the state of its load
    ev                      \* the last handler: what ran and what it did

vars == <<sessions, result, lookup, selectorName, cssInlineEditor, rules, listQuery,
          cssFileInfos, newRuleButton, dropdown, dropdownEventHandler, popUps,
          htmlClick, focused, closed, cmdEnabled, newRuleHandlers, creates, ev>>

\* Everything but the record of the last handler
core == <<sessions, result, lookup, selectorName, cssInlineEditor, rules, listQuery,
          cssFileInfos, newRuleButton, dropdown, dropdownEventHandler, popUps,
          htmlClick, focused, closed, cmdEnabled, newRuleHandlers, creates>>

Cur ==
    [sessions |-> sessions, result |-> result, lookup |-> lookup,
     selectorName |-> selectorName, cssInlineEditor |-> cssInlineEditor,
     rules |-> rules, listQuery |-> listQuery, cssFileInfos |-> cssFileInfos,
     newRuleButton |-> newRuleButton, dropdown |-> dropdown,
     dropdownEventHandler |-> dropdownEventHandler, popUps |-> popUps,
     htmlClick |-> htmlClick, focused |-> focused, closed |-> closed,
     cmdEnabled |-> cmdEnabled, newRuleHandlers |-> newRuleHandlers,
     creates |-> creates, ev |-> ev]

Commit(s) ==
    /\ sessions' = s.sessions
    /\ result' = s.result
    /\ lookup' = s.lookup
    /\ selectorName' = s.selectorName
    /\ cssInlineEditor' = s.cssInlineEditor
    /\ rules' = s.rules
    /\ listQuery' = s.listQuery
    /\ cssFileInfos' = s.cssFileInfos
    /\ newRuleButton' = s.newRuleButton
    /\ dropdown' = s.dropdown
    /\ dropdownEventHandler' = s.dropdownEventHandler
    /\ popUps' = s.popUps
    /\ htmlClick' = s.htmlClick
    /\ focused' = s.focused
    /\ closed' = s.closed
    /\ cmdEnabled' = s.cmdEnabled
    /\ newRuleHandlers' = s.newRuleHandlers
    /\ creates' = s.creates
    /\ ev' = s.ev

\* The current state at the start of a handler of the given kind
Begin(type, w, arg) ==
    [Cur EXCEPT !.ev = [type |-> type, w |-> w, arg |-> arg,
                        issued |-> <<>>, ran |-> <<>>, cleaned |-> <<>>]]

(***************************************************************************)
(* $.Deferred: the first resolve or reject settles it, later ones are      *)
(* ignored.                                                                *)
(***************************************************************************)
Deferred(state, value) == [state |-> state, value |-> value]
resolve(d, value) == IF d.state = "pending" THEN Deferred("resolved", value) ELSE d
reject(d) == IF d.state = "pending" THEN Deferred("rejected", NoWidget) ELSE d

Init ==
    /\ sessions = 0
    /\ result = [w \in W |-> Deferred("none", NoWidget)]
    /\ lookup = [w \in W |-> "none"]
    /\ selectorName = [w \in W |-> <<>>]
    /\ cssInlineEditor = [w \in W |-> NULL]
    /\ rules = [w \in W |-> 0]
    /\ listQuery = [w \in W |-> "none"]
    /\ cssFileInfos = [w \in W |-> <<>>]
    /\ newRuleButton = [w \in W |-> NULL]
    /\ dropdown = [w \in W |-> NULL]
    /\ dropdownEventHandler = [w \in W |-> NULL]
    /\ popUps = {}
    /\ htmlClick = <<>>
    /\ focused = 0
    /\ closed = {}
    /\ cmdEnabled = FALSE            \* _newRuleCmd.setEnabled(false), line 333
    /\ newRuleHandlers = <<>>
    /\ creates = <<>>
    /\ ev = [type |-> "init", w |-> 0, arg |-> NULL,
             issued |-> <<>>, ran |-> <<>>, cleaned |-> <<>>]

(***************************************************************************)
(* Focus.  hasFocus is true of the widget that contains the focused        *)
(* element.  The widget's content has _updateCommands bound to focusin and *)
(* focusout (lines 288-290): when the focus moves, the widget losing it    *)
(* runs the handler first (no widget holds the focus at that moment), then *)
(* the widget gaining it.                                                  *)
(***************************************************************************)
hasFocus(s, w) == s.focused = w

\* jQuery hasClass / addClass / removeClass on a button: its set of classes
hasClass(button, class) == class \in Deref(button)
addClass(button, class) == Ref(Deref(button) \cup {class})
removeClass(button, class) == Ref(Deref(button) \ {class})

_updateCommands(s, w) ==
    [s EXCEPT !.cmdEnabled = hasFocus(s, w) /\ ~hasClass(s.newRuleButton[w], "disabled")]

moveFocus(s, target) ==
    LET blurred == [s EXCEPT !.focused = 0]
        s1 == IF s.focused \in W THEN _updateCommands(blurred, s.focused) ELSE blurred
        s2 == [s1 EXCEPT !.focused = target]
    IN  IF target \in W THEN _updateCommands(s2, target) ELSE s2

\* EditorManager.focusEditor(): the focus returns to the host editor
focusEditor(s) == moveFocus(s, 0)

\* $newRuleButton.focus(): an element that is no longer in the page cannot
\* take the focus
focusButton(s, w) == IF w \in s.closed THEN s ELSE moveFocus(s, w)

\* The host closes an inline widget: its content leaves the page, and the
\* focus, if the widget held it, returns to the host editor.  Nothing of this
\* module is called but the focusout listener.
closeInlineWidget(s, w) ==
    LET s1 == IF s.focused = w THEN moveFocus(s, 0) ELSE s
    IN  [s1 EXCEPT !.closed = @ \cup {w}]

(***************************************************************************)
(* _addRule (lines 117-123): the call only starts the document load; the   *)
(* continuation is AddRuleDone below.                                      *)
(***************************************************************************)
_addRule(s, selector, inlineEditor, path) ==
    LET req == [selectorName |-> selector, inlineEditor |-> inlineEditor,
                path |-> path, status |-> "loading"]
    IN  [s EXCEPT !.creates = Append(@, req),
                  !.ev.issued = Append(@, [inlineEditor |-> inlineEditor, path |-> path,
                                           selectorName |-> selector])]

(***************************************************************************)
(* The dropdown of one session (lines 184-239)                             *)
(***************************************************************************)
\* Faulty variant: the listener on the html element is left registered
_cleanupDropdown_KeepsListener(s, w) ==
    focusEditor([s EXCEPT !.dropdownEventHandler[w] = NULL,
                          !.dropdown[w] = NULL,
                          !.ev.cleaned = Append(@, w)])

_cleanupDropdown(s, w) ==
    focusEditor([s EXCEPT !.htmlClick = SelectSeq(@, LAMBDA h : h # w),
                          !.dropdownEventHandler[w] = NULL,
                          !.dropdown[w] = NULL,
                          !.ev.cleaned = Append(@, w)])

\* DropdownEventHandler.open: the list becomes an open pop-up
DropdownOpen(s, w) == [s EXCEPT !.popUps = @ \cup {w}]

\* DropdownEventHandler.close and every other dismissal: an open pop-up is
\* removed and its close callback, _cleanupDropdown, is called
DropdownClose(s, w) ==
    IF w \in s.popUps THEN _cleanupDropdown([s EXCEPT !.popUps = @ \ {w}], w) ELSE s

\* Faulty variant: the handler is not asked to close
_closeDropdown_Noop(s, w) == s

_closeDropdown(s, w) ==
    IF s.dropdownEventHandler[w] # NULL THEN DropdownClose(s, w) ELSE s

\* $link.data("path") of a list item; the template gives every item the
\* fullPath of its stylesheet
_renderList(fileInfos) == [i \in 1..Len(fileInfos) |-> [path |-> fileInfos[i].fullPath]]

\* Faulty variant: the rule is created against the first stylesheet, whatever was chosen
_onSelect_FirstSheet(s, w, link) ==
    _addRule(s, s.selectorName[w], w, s.cssFileInfos[w][1].fullPath)

_onSelect(s, w, link) ==
    LET path == link.path
    IN  IF path # NoPath THEN _addRule(s, s.selectorName[w], w, path) ELSE s

_showDropdown(s, w) ==
    LET s1 == [s EXCEPT !.dropdown[w] = Ref(_renderList(s.cssFileInfos[w])),
                  !.htmlClick = Append(@, w),
                  !.dropdownEventHandler[w] = Ref("DropdownEventHandler")]
    IN  moveFocus(DropdownOpen(s1, w), 0)                          \* $dropdown.focus()

(***************************************************************************)
(* _handleNewRuleClick (lines 267-281).  e.stopPropagation(): a click on   *)
(* the button never reaches the listeners on the html element.             *)
(***************************************************************************)
\* Faulty variant: the single-stylesheet case is not told apart
_handleNewRuleClick_NoDirect(s, w) ==
    LET s0 == [s EXCEPT !.ev.ran = Append(@, w)]
    IN  IF ~hasClass(s.newRuleButton[w], "disabled")
        THEN IF s.dropdown[w] # NULL THEN _closeDropdown(s0, w) ELSE _showDropdown(s0, w)
        ELSE s0

_handleNewRuleClick(s, w) ==
    LET s0 == [s EXCEPT !.ev.ran = Append(@, w)]
    IN  IF ~hasClass(s.newRuleButton[w], "disabled")
        THEN IF Len(s.cssFileInfos[w]) = 1
             THEN _addRule(s0, s.selectorName[w], w, s.cssFileInfos[w][1].fullPath)
             ELSE IF s.dropdown[w] # NULL
             THEN _closeDropdown(s0, w)
             ELSE _showDropdown(s0, w)
        ELSE s0

(***************************************************************************)
(* _handleNewRule (lines 129-139)                                          *)
(***************************************************************************)
\* MultiRangeInlineEditor.getFocusedMultiRangeInlineEditor()
getFocusedMultiRangeInlineEditor(s) == IF s.focused \in W THEN s.focused ELSE NoWidget

\* _.find: the first entry the predicate holds of, NULL ("undefined") if none
\* Faulty variant: the first entry is taken, whichever widget it belongs to
findHandler_First(handlers, inlineEditor) ==
    IF handlers = <<>> THEN NULL ELSE Ref(handlers[1])

findHandler(handlers, inlineEditor) ==
    LET I == {i \in 1..Len(handlers) : handlers[i].inlineEditor = inlineEditor}
    IN  IF I = {} THEN NULL ELSE Ref(handlers[CHOOSE i \in I : \A j \in I : i <= j])

_handleNewRule(s) ==
    LET inlineEditor == getFocusedMultiRangeInlineEditor(s)
    IN  IF inlineEditor # NoWidget
        THEN LET handlerInfo == findHandler(s.newRuleHandlers, inlineEditor)
             IN  IF handlerInfo # NULL
                 THEN _handleNewRuleClick(s, Deref(handlerInfo).handler)
                 ELSE s
        ELSE s

(***************************************************************************)
(* htmlToCSSProvider (lines 151-177, 283, 327): the synchronous part of a  *)
(* call.  ev.arg is what the call returns, and from which line.            *)
(***************************************************************************)
\* Faulty variant: the selector is resolved at the position handed in
selectionSelector_AtPos(inp) == _getSelectorName(getTagInfo(inp.pos))

\* line 166: the selector is resolved at the selection start
selectionSelector(inp) == _getSelectorName(getTagInfo(inp.start))

htmlToCSSProvider(s, inp) ==
    IF inp.language # "html" THEN [s EXCEPT !.ev.arg = [ret |-> "null", line |-> 155]]
    ELSE IF inp.start.line # inp.end.line THEN [s EXCEPT !.ev.arg = [ret |-> "null", line |-> 161]]
    ELSE IF selectionSelector(inp) = <<>> THEN [s EXCEPT !.ev.arg = [ret |-> "null", line |-> 168]]
    ELSE LET w == s.sessions + 1
         IN  [s EXCEPT !.sessions = w,
                       !.result[w] = Deferred("pending", NoWidget),
                       !.selectorName[w] = selectionSelector(inp),
                       !.lookup[w] = "pending",          \* CSSUtils.findMatchingRules
                       !.ev.w = w,
                       !.ev.arg = [ret |-> "promise", line |-> 327]]

(***************************************************************************)
(* The callbacks of findMatchingRules (lines 284-325)                      *)
(***************************************************************************)
\* What the rule search may answer: no rule, or one rule of the host document
LookupResults == {<<>>, <<[doc |-> HostDoc, lineStart |-> 0, lineEnd |-> 1]>>}

\* CSSUtils.consolidateRules and the widget's constructor and load: one range
\* per rule, the first one selected
newMultiRangeInlineEditor(name, found) ==
    [ranges |-> [i \in 1..Len(found) |->
                    [name |-> name, doc |-> found[i].doc,
                     startLine |-> found[i].lineStart, endLine |-> found[i].lineEnd]],
     selected |-> IF Len(found) > 0 THEN 1 ELSE 0,
     caret |-> NULL]

\* Faulty variant: the handler is registered twice
findMatchingRulesDone_RegistersTwice(s, w, found) ==
    [s EXCEPT !.lookup[w] = "done",
              !.rules[w] = Len(found),
              !.cssInlineEditor[w] = Ref(newMultiRangeInlineEditor(s.selectorName[w], found)),
              !.newRuleButton[w] = Ref({"stylesheet-button", "btn", "btn-mini", "disabled"}),
              !.newRuleHandlers = @ \o <<[inlineEditor |-> w, handler |-> w],
                                         [inlineEditor |-> w, handler |-> w]>>,
              !.result[w] = resolve(@, w),
              !.listQuery[w] = "pending"]

\* Faulty variant: the button is created without the class "disabled"
findMatchingRulesDone_ButtonEnabled(s, w, found) ==
    [s EXCEPT !.lookup[w] = "done",
              !.rules[w] = Len(found),
              !.cssInlineEditor[w] = Ref(newMultiRangeInlineEditor(s.selectorName[w], found)),
              !.newRuleButton[w] = Ref({"stylesheet-button", "btn", "btn-mini"}),
              !.newRuleHandlers = Append(@, [inlineEditor |-> w, handler |-> w]),
              !.result[w] = resolve(@, w),
              !.listQuery[w] = "pending"]

findMatchingRulesDone(s, w, found) ==
    [s EXCEPT !.lookup[w] = "done",
              !.rules[w] = Len(found),
              !.cssInlineEditor[w] = Ref(newMultiRangeInlineEditor(s.selectorName[w], found)),
              !.newRuleButton[w] = Ref({"stylesheet-button", "btn", "btn-mini", "disabled"}),
              !.newRuleHandlers = Append(@, [inlineEditor |-> w, handler |-> w]),
              !.result[w] = resolve(@, w),
              !.listQuery[w] = "pending"]                 \* FileIndexManager.getFileInfoList

\* Faulty variant: the failure is logged and the result left pending
findMatchingRulesFail_LogOnly(s, w) == [s EXCEPT !.lookup[w] = "failed"]

findMatchingRulesFail(s, w) ==
    [s EXCEPT !.lookup[w] = "failed", !.result[w] = reject(@)]

(***************************************************************************)
(* The callback of getFileInfoList (lines 303-320)                         *)
(***************************************************************************)
FileInfoLists == {[i \in 1..n |-> [fullPath |-> i]] : n \in 0..MaxSheets}

\* Faulty variant: the button is enabled whatever the length of the list
getFileInfoListDone_EnablesAlways(s, w, fileInfos) ==
    LET s1 == [s EXCEPT !.listQuery[w] = "done", !.cssFileInfos[w] = fileInfos]
        enabled == [s1 EXCEPT !.newRuleButton[w] = removeClass(@, "disabled")]
        s2 == IF s.rules[w] = 0 THEN focusButton(enabled, w) ELSE enabled
        s3 == IF Len(fileInfos) > 1
              THEN [s2 EXCEPT !.newRuleButton[w] = addClass(@, "btn-dropdown")]
              ELSE s2
    IN  _updateCommands(s3, w)

\* Faulty variant: the focus is forced to the button whatever the lookup found
getFileInfoListDone_FocusAlways(s, w, fileInfos) ==
    LET s1 == [s EXCEPT !.listQuery[w] = "done", !.cssFileInfos[w] = fileInfos]
        s2 == IF Len(fileInfos) > 0
              THEN focusButton([s1 EXCEPT !.newRuleButton[w] = removeClass(@, "disabled")], w)
              ELSE s1
        s3 == IF Len(fileInfos) > 1
              THEN [s2 EXCEPT !.newRuleButton[w] = addClass(@, "btn-dropdown")]
              ELSE s2
    IN  _updateCommands(s3, w)

getFileInfoListDone(s, w, fileInfos) ==
    LET s1 == [s EXCEPT !.listQuery[w] = "done", !.cssFileInfos[w] = fileInfos]
        s2 == IF Len(fileInfos) > 0
              THEN LET enabled == [s1 EXCEPT !.newRuleButton[w] = removeClass(@, "disabled")]
                   IN  IF s.rules[w] = 0 THEN focusButton(enabled, w) ELSE enabled
              ELSE s1
        s3 == IF Len(fileInfos) > 1
              THEN [s2 EXCEPT !.newRuleButton[w] = addClass(@, "btn-dropdown")]
              ELSE s2
    IN  _updateCommands(s3, w)

(***************************************************************************)
(* The continuation of _addRule (lines 118-122)                            *)
(***************************************************************************)
\* What CSSUtils.addRuleToDocument may answer: the range and the caret of the
\* inserted rule (indented with spaces, or with a tab)
NewRuleInfos ==
    {[range |-> [from |-> [line |-> 3], to |-> [line |-> 5]], pos |-> [line |-> 4, ch |-> 4]],
     [range |-> [from |-> [line |-> 7], to |-> [line |-> 9]], pos |-> [line |-> 8, ch |-> 1]]}

\* MultiRangeInlineEditor.addAndSelectRange: the range is added and selected
addAndSelectRange(widget, name, doc, startLine, endLine) ==
    LET added == Append(widget.ranges,
                        [name |-> name, doc |-> doc, startLine |-> startLine, endLine |-> endLine])
    IN  [widget EXCEPT !.ranges = added, !.selected = Len(added)]

\* inlineEditor.editor.setCursorPos
setCursorPos(widget, line, ch) == [widget EXCEPT !.caret = Ref([line |-> line, ch |-> ch])]

\* Faulty variant: the range ends on the line it starts on
getDocumentForPathDone_OneLine(s, i, newRuleInfo) ==
    LET req == s.creates[i]
        w == req.inlineEditor
        added == addAndSelectRange(Deref(s.cssInlineEditor[w]), req.selectorName, req.path,
                                   newRuleInfo.range.from.line, newRuleInfo.range.from.line)
    IN  [s EXCEPT !.cssInlineEditor[w] =
                      Ref(setCursorPos(added, newRuleInfo.pos.line, newRuleInfo.pos.ch)),
                  !.creates[i].status = "done"]

\* Faulty variant: the load of a widget that was closed meanwhile is dropped
getDocumentForPathDone_SkipsClosed(s, i, newRuleInfo) ==
    LET req == s.creates[i]
        w == req.inlineEditor
        added == addAndSelectRange(Deref(s.cssInlineEditor[w]), req.selectorName, req.path,
                                   newRuleInfo.range.from.line, newRuleInfo.range.to.line)
    IN  IF w \in s.closed
        THEN [s EXCEPT !.creates[i].status = "done"]
        ELSE [s EXCEPT !.cssInlineEditor[w] =
                           Ref(setCursorPos(added, newRuleInfo.pos.line, newRuleInfo.pos.ch)),
                       !.creates[i].status = "done"]

getDocumentForPathDone(s, i, newRuleInfo) ==
    LET req == s.creates[i]
        styleDoc == req.path
        w == req.inlineEditor
        added == addAndSelectRange(Deref(s.cssInlineEditor[w]), req.selectorName, styleDoc,
                                   newRuleInfo.range.from.line, newRuleInfo.range.to.line)
    IN  [s EXCEPT !.cssInlineEditor[w] =
                      Ref(setCursorPos(added, newRuleInfo.pos.line, newRuleInfo.pos.ch)),
                  !.creates[i].status = "done"]

\* Faulty variant: a failed load leaves an empty range in the widget
getDocumentForPathFail_EmptyRange(s, i) ==
    LET req == s.creates[i]
        w == req.inlineEditor
    IN  [s EXCEPT !.cssInlineEditor[w] =
                      Ref(addAndSelectRange(Deref(@), req.selectorName, req.path, 0, 0)),
                  !.creates[i].status = "failed"]

\* The load fails: _addRule attached no fail callback
getDocumentForPathFail(s, i) == [s EXCEPT !.creates[i].status = "failed"]

(***************************************************************************)
(* A click that reaches the html element runs the listeners registered on  *)
(* it, in order (jQuery runs the list as it was when the event arrived).   *)
(***************************************************************************)
RECURSIVE dispatchHtmlClick(_, _)
dispatchHtmlClick(s, listeners) ==
    IF listeners = <<>> THEN s
    ELSE dispatchHtmlClick(_closeDropdown(s, Head(listeners)), Tail(listeners))

(***************************************************************************)
(* Actions: one per handler                                                *)
(***************************************************************************)
\* A handler may issue rule creations while fewer than MaxCreates were issued
WithinCreates(s) ==
    Len(s.creates) > Len(creates) =>
        (Len(creates) < MaxCreates /\ sessions + Len(creates) < MaxWork)

\* The provider is called while fewer than MaxWidgets calls were accepted
Provide(inp) ==
    /\ sessions < MaxWidgets /\ sessions + Len(creates) < MaxWork
    /\ Commit(htmlToCSSProvider(Begin("provide", 0, NULL), inp))

LookupDone(w, found) ==
    /\ lookup[w] = "pending"
    /\ Commit(findMatchingRulesDone(Begin("lookupDone", w, NULL), w, found))

LookupFail(w) ==
    /\ lookup[w] = "pending"
    /\ Commit(findMatchingRulesFail(Begin("lookupFail", w, NULL), w))

ListDone(w, fileInfos) ==
    /\ listQuery[w] = "pending"
    /\ Commit(getFileInfoListDone(Begin("listDone", w, NULL), w, fileInfos))

\* The user moves the focus into a widget, or out of the widgets
FocusWidget(w) ==
    /\ cssInlineEditor[w] # NULL /\ w \notin closed
    /\ Commit(moveFocus(Begin("focus", w, NULL), w))

FocusElsewhere ==
    /\ focused # 0
    /\ Commit(moveFocus(Begin("focus", 0, NULL), 0))

\* The host closes a widget (Escape in the widget, or its close button)
CloseWidget(w) ==
    /\ cssInlineEditor[w] # NULL /\ w \notin closed
    /\ Commit(closeInlineWidget(Begin("closeWidget", w, NULL), w))

ClickButton(w) ==
    /\ newRuleButton[w] # NULL /\ w \notin closed
    /\ LET s == _handleNewRuleClick(Begin("click", w, NULL), w)
       IN  WithinCreates(s) /\ Commit(s)

\* The "new rule" command is executed
InvokeCommand ==
    LET s == _handleNewRule(Begin("command", focused, NULL))
    IN  WithinCreates(s) /\ Commit(s)

\* A click outside the dropdowns and the buttons
OutsideClick ==
    /\ htmlClick # <<>>
    /\ Commit(dispatchHtmlClick(Begin("outsideClick", 0, NULL), htmlClick))

\* An item of an open dropdown is chosen: with the keyboard, or with a click,
\* which then reaches the html element
SelectItem(w, i, byClick) ==
    /\ w \in popUps
    /\ i \in 1..Len(Deref(dropdown[w]))
    /\ LET s0 == Begin("select", w, [item |-> i, path |-> Deref(dropdown[w])[i].path])
           s1 == DropdownClose(_onSelect(s0, w, Deref(dropdown[w])[i]), w)
           s2 == IF byClick THEN dispatchHtmlClick(s1, s1.htmlClick) ELSE s1
       IN  WithinCreates(s2) /\ Commit(s2)

\* The keyboard handler of an open dropdown closes it (Escape)
KeyboardClose(w) ==
    /\ w \in popUps
    /\ Commit(DropdownClose(Begin("keyboardClose", w, NULL), w))

LoadDone(i, newRuleInfo) ==
    /\ creates[i].status = "loading"
    /\ Commit(getDocumentForPathDone(
                  Begin("loadDone", creates[i].inlineEditor,
                        [index |-> i, newRuleInfo |-> newRuleInfo]), i, newRuleInfo))

LoadFail(i) ==
    /\ creates[i].status = "loading"
    /\ Commit(getDocumentForPathFail(
                  Begin("loadFail", creates[i].inlineEditor, [index |-> i]), i))

Next ==
    \/ \E inp \in ProviderInputs : Provide(inp)
    \/ \E w \in W, found \in LookupResults : LookupDone(w, found)
    \/ \E w \in W : LookupFail(w)
    \/ \E w \in W, fileInfos \in FileInfoLists : ListDone(w, fileInfos)
    \/ \E w \in W : FocusWidget(w)
    \/ FocusElsewhere
    \/ \E w \in W : CloseWidget(w)
    \/ \E w \in W : ClickButton(w)
    \/ InvokeCommand
    \/ OutsideClick
    \/ \E w \in W, i \in Paths, byClick \in BOOLEAN : SelectItem(w, i, byClick)
    \/ \E w \in W : KeyboardClose(w)
    \/ \E i \in 1..Len(creates), newRuleInfo \in NewRuleInfos : LoadDone(i, newRuleInfo)
    \/ \E i \in 1..Len(creates) : LoadFail(i)

Spec == Init /\ [][Next]_vars

(***************************************************************************)
(* _getSelectorName on its own: the function is applied to every context   *)
(* the tokenizer may hand it, with attribute values over letters, the      *)
(* space and the tab.  The provider goes on to the rule lookup exactly     *)
(* when the selector is not empty (lines 167-169, 283).                    *)
(***************************************************************************)
Chars == {"a", "b", " ", "\t"}
Whitespace == {" ", "\t"}
Values == UNION {[1..n -> Chars] : n \in 0..MaxLen}
TokenTypes == {TAG_NAME, CLOSING_TAG, ATTR_NAME, ATTR_VALUE, ""}
AttrNames == {"class", "id", "style", ""}
TagNames == {<<"p">>, <<"h", "1">>}

Contexts ==
    {TagInfo(tokenType, tagName, attrName, value, offset) :
        tokenType \in TokenTypes, tagName \in TagNames, attrName \in AttrNames,
        value \in Values, offset \in 0..MaxLen}

Resolve(tagInfo) ==
    /\ tagInfo.position.offset <= Len(tagInfo.attr.value)
    /\ LET selector == _getSelectorName(tagInfo)
       IN  ev' = [type |-> "resolve", w |-> 0,
                  arg |-> [tagInfo |-> tagInfo, ret |-> selector, lookup |-> selector # <<>>],
                  issued |-> <<>>, ran |-> <<>>, cleaned |-> <<>>]
    /\ UNCHANGED core

\* One context is resolved in a run
ResolveNext == ev.type = "init" /\ \E tagInfo \in Contexts : Resolve(tagInfo)

ResolveSpec == Init /\ [][ResolveNext]_vars

(***************************************************************************)
(* Properties                                                              *)
(***************************************************************************)
Built(w) == cssInlineEditor[w] # NULL
Enabled(w) == Built(w) /\ ~hasClass(newRuleButton[w], "disabled")
Sheets(w) == Len(cssFileInfos[w])
Widget(w) == Deref(cssInlineEditor[w])
OpenPickers == {w \in W : dropdown[w] # NULL}
Count(seq, x) == Cardinality({i \in 1..Len(seq) : seq[i] = x})
Request(w, path) == [inlineEditor |-> w, path |-> path, selectorName |-> selectorName[w]]
\* The last handler was the button's click handler of w: a click or the command
Activated(w) == ev.type \in {"click", "command"} /\ ev.ran = <<w>>

\* C1, the state part: choosing an item issues exactly one creation, for the
\* widget of the picker and the path of the chosen stylesheet, and closes the
\* picker; a click outside closes every picker and issues no creation.
C1_SelectAndDismiss ==
    /\ ev.type = "select" =>
          /\ ev.arg.path = cssFileInfos[ev.w][ev.arg.item].fullPath
          /\ ev.issued = <<Request(ev.w, ev.arg.path)>>
          /\ ev.w \notin OpenPickers
    /\ ev.type = "outsideClick" => ev.issued = <<>> /\ OpenPickers = {} /\ popUps = {}

\* C1, the step part: activating the enabled button of a widget with two or
\* more stylesheets and no picker open opens a picker that lists every
\* stylesheet of the widget's list, in order, and issues no creation.
C1_ClickOpensPicker ==
    \A w \in W :
        (Activated(w)' /\ Enabled(w) /\ Sheets(w) >= 2 /\ w \notin OpenPickers) =>
            /\ dropdown'[w] = Ref([i \in 1..Sheets(w) |-> [path |-> cssFileInfos[w][i].fullPath]])
            /\ w \in popUps'
            /\ ev'.issued = <<>>

C2_AtMostOnePicker == Cardinality(OpenPickers) <= 1

\* C3: the "new rule" command is enabled exactly when some widget has the
\* focus and the button of that widget is not disabled.
C3_CommandTracksFocus == cmdEnabled <=> (focused \in W /\ Enabled(focused))

\* C4, the state part: a picker is recorded as open exactly while its pop-up
\* is open, and exactly then its outside-click listener is registered, once;
\* after a cleanup the focus is back in the host editor.
C4_PickerState ==
    /\ \A w \in W :
          /\ dropdown[w] # NULL <=> w \in popUps
          /\ dropdownEventHandler[w] # NULL <=> w \in popUps
          /\ Count(htmlClick, w) = IF w \in popUps THEN 1 ELSE 0
    /\ ev.cleaned # <<>> => focused = 0

\* C4, the step part: the cleanup of a picker runs once in a step that
\* closes it and not at all in any other step.
C4_CleanupOnClose ==
    \A w \in W : Count(ev'.cleaned, w) = IF w \in popUps /\ w \notin popUps' THEN 1 ELSE 0

\* C4: the cleanup runs exactly once per open/close cycle of a picker,
\* whichever way it is dismissed; afterwards the listener is not registered
\* and no dropdown is recorded as open.
C4_CleanupExactlyOnce == []C4_PickerState /\ [][C4_CleanupOnClose]_vars

\* C4 witness: a click on an item closed its picker and, reaching the html
\* element, the picker of the other widget as well, each cleaned up once.
C4_Witness ==
    /\ ev.type = "select" /\ Len(ev.cleaned) = 2
    /\ popUps = {} /\ htmlClick = <<>>

Settled(w) == {i \in 1..Len(creates) : creates[i].inlineEditor = w /\ creates[i].status # "loading"}
Inserted(w) == {i \in 1..Len(creates) : creates[i].inlineEditor = w /\ creates[i].status = "done"}
LastRange(w) == Widget(w).ranges[Len(Widget(w).ranges)]

\* C5 as stated: every creation whose document load has ended has added a
\* range to its widget.
C5_EveryCreateSplices ==
    \A w \in W : Built(w) => Len(Widget(w).ranges) = rules[w] + Cardinality(Settled(w))

\* C5 as amended: when the document load of a creation succeeds, the widget
\* gets a new range, the selected one, whose line span is the range the
\* insertion returned, and the caret of the widget's editor is the returned
\* position; a widget gets one range per successful load and none otherwise.
C5_LoadedCreateSplices ==
    /\ \A w \in W : Built(w) => Len(Widget(w).ranges) = rules[w] + Cardinality(Inserted(w))
    /\ ev.type = "loadDone" =>
          LET info == ev.arg.newRuleInfo
              req == creates[ev.arg.index]
          IN  /\ req.inlineEditor = ev.w
              /\ Widget(ev.w).selected = Len(Widget(ev.w).ranges)
              /\ LastRange(ev.w) = [name |-> req.selectorName, doc |-> req.path,
                                    startLine |-> info.range.from.line,
                                    endLine |-> info.range.to.line]
              /\ Widget(ev.w).caret = Ref(info.pos)

\* C5 witness: a load succeeded and its rule, lines 7 to 9 of the second
\* stylesheet, is the selected range of a widget that had a range already.
C5_Witness ==
    /\ ev.type = "loadDone" /\ rules[ev.w] = 1
    /\ LastRange(ev.w).startLine = 7 /\ LastRange(ev.w).doc = 2

\* C6: while the stylesheet list of a widget is empty the button is disabled,
\* no picker of the widget is open, no creation was issued for the widget,
\* and activating the button issues nothing and closes nothing.
C6_NoStylesheetsDisabled ==
    \A w \in W : (Built(w) /\ Sheets(w) = 0) =>
        /\ hasClass(newRuleButton[w], "disabled")
        /\ w \notin OpenPickers /\ w \notin popUps
        /\ \A i \in 1..Len(creates) : creates[i].inlineEditor # w
        /\ Activated(w) => ev.issued = <<>> /\ ev.cleaned = <<>>

\* C6 witness: the list arrived empty for a widget without rules, which has
\* the focus, and the command ran its click handler.
C6_Witness ==
    \E w \in W : /\ listQuery[w] = "done" /\ Sheets(w) = 0 /\ rules[w] = 0
                 /\ ev.type = "command" /\ ev.ran = <<w>>

\* C7: with exactly one stylesheet no picker of the widget is ever open, and
\* every activation of the button issues one creation, for that widget and
\* the path of that stylesheet.
C7_SingleStylesheetDirect ==
    \A w \in W : (Built(w) /\ Sheets(w) = 1) =>
        /\ w \notin OpenPickers /\ w \notin popUps
        /\ ~hasClass(newRuleButton[w], "disabled")
        /\ Activated(w) => ev.issued = <<Request(w, cssFileInfos[w][1].fullPath)>>

\* C7 witness: the command created a rule for the second widget, which has
\* one stylesheet, while the first widget has two.
C7_Witness ==
    /\ Sheets(2) = 1 /\ Sheets(1) = 2
    /\ ev.type = "command" /\ ev.ran = <<2>> /\ Len(ev.issued) = 1

\* The early-outs as the specification states them
EarlyOut(inp) ==
    \/ inp.language # "html"
    \/ inp.start.line # inp.end.line
    \/ _getSelectorName(getTagInfo(inp.start)) = <<>>

\* C8, the state part: a call that returned null started no session.
C8_NullStartsNothing ==
    (ev.type = "provide" /\ ev.arg.ret = "null") => ev.w = 0

\* C8, the step part: a call in one of the early-out cases returns null and
\* changes nothing: no lookup, no widget, no registry entry, no list query.
C8_EarlyOutStep ==
    ev'.type = "provide" =>
        \A inp \in ProviderInputs :
            (EarlyOut(inp) /\ Provide(inp)) => (ev'.arg.ret = "null" /\ UNCHANGED core)

\* C8: the provider returns null and starts no asynchronous work when the
\* language is not html, when the selection spans two lines, or when the
\* selector at the selection start is empty.
C8_ProviderDeclines == []C8_NullStartsNothing /\ [][C8_EarlyOutStep]_vars

\* C8 witness: after one accepted call, a call with a two-line selection
\* returned null at line 161.
C8_Witness ==
    /\ ev.type = "provide" /\ ev.arg = [ret |-> "null", line |-> 161]
    /\ sessions = 1 /\ lookup[2] = "none"

\* C9, the state part: the result is pending while the lookup is, resolved
\* with the widget once the lookup succeeded, rejected once it failed; after
\* a failure there is no widget, no button, no registry entry and no list
\* query.
C9_ResultFollowsLookup ==
    \A w \in W :
        /\ lookup[w] = "none" => result[w].state = "none"
        /\ lookup[w] = "pending" => result[w].state = "pending"
        /\ lookup[w] = "done" => result[w] = Deferred("resolved", w) /\ Built(w)
        /\ lookup[w] = "failed" =>
              /\ result[w].state = "rejected"
              /\ cssInlineEditor[w] = NULL /\ newRuleButton[w] = NULL
              /\ \A i \in 1..Len(newRuleHandlers) : newRuleHandlers[i].inlineEditor # w
              /\ listQuery[w] = "none"

\* C9, the step part: a settled result never changes, and a failed lookup is
\* not issued again.
C9_SettledOnce ==
    \A w \in W :
        /\ result[w].state \in {"resolved", "rejected"} => result'[w] = result[w]
        /\ lookup[w] = "failed" => lookup'[w] = "failed"

\* C9: a call that passes the early-outs settles its result exactly once,
\* resolved with the widget or rejected, and a failed lookup builds nothing
\* and is not retried.
C9_ResultSettledOnce == []C9_ResultFollowsLookup /\ [][C9_SettledOnce]_vars

\* C9 witness: the lookup of the first call failed and the one of the second
\* succeeded.
C9_Witness ==
    /\ result[1].state = "rejected" /\ result[2] = Deferred("resolved", 2)
    /\ ev.type = "lookupFail"

\* C10, the step part: the command runs the click handler of the entry of
\* the focused widget and no other; without a focused widget it changes
\* nothing.
C10_CommandStep ==
    ev'.type = "command" =>
        /\ ev'.ran = IF focused \in W THEN <<focused>> ELSE <<>>
        /\ focused \notin W => UNCHANGED core

\* C10: the "new rule" command is routed to the handler of the focused
\* widget only, and is a no-op when no widget has the focus.
C10_CommandRouting == [][C10_CommandStep]_vars

\* C10 witness: with two entries in the registry, the command ran the
\* handler of the second widget, which opened its picker.
C10_Witness ==
    /\ ev.type = "command" /\ ev.ran = <<2>>
    /\ Len(newRuleHandlers) = 2 /\ OpenPickers = {2}

(***************************************************************************)
(* Properties of _getSelectorName, under ResolveSpec                       *)
(***************************************************************************)
Resolved == ev.type = "resolve"
Token == ev.arg.tagInfo.position.tokenType
Attr == ev.arg.tagInfo.attr
Offset == ev.arg.tagInfo.position.offset
OnAttribute == Token \in {ATTR_NAME, ATTR_VALUE}
\* The names of a class attribute value: its maximal whitespace-free slices,
\* as pairs <<s, e>> for the slice V[s..e)
Slices(V) ==
    {se \in (0..Len(V)) \X (0..Len(V)) :
        /\ se[1] < se[2]
        /\ \A i \in (se[1] + 1)..se[2] : V[i] \notin Whitespace}
\* The offset is on a separator: no name character on either side of it
OnSeparator(V, C) ==
    /\ C = 0 \/ V[C] \in Whitespace
    /\ C = Len(V) \/ V[C + 1] \in Whitespace
MultiClass(V) == \E i \in 1..Len(V) : V[i] \in Whitespace

\* C11: for a class attribute, the result is empty or "." followed by a
\* non-empty whitespace-free slice V[s..e) of the value with s <= C <= e; it
\* is empty when the offset is on a separator, and it is never "." followed
\* by a whole value that holds whitespace.
C11_ClassWordAtOffset ==
    (Resolved /\ OnAttribute /\ Attr.name = "class") =>
        LET V == Attr.value
            C == Offset
            r == ev.arg.ret
        IN  /\ \/ r = <<>>
               \/ \E se \in Slices(V) :
                     /\ se[1] <= C /\ C <= se[2]
                     /\ r = <<".">> \o SubSeq(V, se[1] + 1, se[2])
            /\ OnSeparator(V, C) => r = <<>>
            /\ MultiClass(V) => r # <<".">> \o V

\* C12: on a tag-name or closing-tag token the result is the tag name, with
\* no prefix, whatever the attribute fields hold; on an attribute token of an
\* id attribute it is "#" followed by the whole value, at every offset; on
\* any other token, and on an attribute other than class and id, it is empty.
C12_TagIdOrNothing ==
    Resolved =>
        LET r == ev.arg.ret
        IN  /\ Token \in {TAG_NAME, CLOSING_TAG} => r = ev.arg.tagInfo.tagName
            /\ (OnAttribute /\ Attr.name = "id") => r = <<"#">> \o Attr.value
            /\ (OnAttribute /\ Attr.name \notin {"class", "id"}) => r = <<>>
            /\ (~OnAttribute /\ Token \notin {TAG_NAME, CLOSING_TAG}) => r = <<>>

\* C12 witness: an id attribute with the value "a b", the cursor after the
\* "a", resolved to "#a b".
C12_Witness ==
    /\ Resolved /\ OnAttribute /\ Attr.name = "id"
    /\ Attr.value = <<"a", " ", "b">> /\ Offset = 1
    /\ ev.arg.ret = <<"#", "a", " ", "b">>

\* C19: a result that is not empty is never a bare prefix "." or "#", so no
\* rule lookup is issued for a bare prefix.
C19_NoBarePrefix ==
    Resolved => (ev.arg.ret \notin {<<".">>, <<"#">>}
                 /\ (ev.arg.lookup => ev.arg.ret \notin {<<>>, <<".">>, <<"#">>}))

(***************************************************************************)
(* Properties of the sessions, under Spec (continued)                      *)
(***************************************************************************)
\* Everything but the rule creations and the record of the last handler
exceptCreates == <<sessions, result, lookup, selectorName, cssInlineEditor, rules, listQuery,
                   cssFileInfos, newRuleButton, dropdown, dropdownEventHandler, popUps,
                   htmlClick, focused, closed, cmdEnabled, newRuleHandlers>>

\* C13, the step part: a failed document load changes nothing but the state
\* of its own request (no range, no caret, no result, no focus, no command
\* state), and a request whose load failed is never completed afterwards.
C13_FailStep ==
    /\ ev'.type = "loadFail" =>
          /\ UNCHANGED exceptCreates
          /\ creates' = [creates EXCEPT ![ev'.arg.index].status = "failed"]
    /\ \A i \in 1..Len(creates) :
          creates[i].status = "failed" => creates'[i] = creates[i]

\* C13: when the document of the stylesheet cannot be obtained, no rule is
\* inserted, the ranges and the caret of the widget stay as they were, no
\* error state is produced, and the request stays incomplete forever.
C13_FailedLoadInert == [][C13_FailStep]_vars

\* C13 witness: of two creations for one widget the first load succeeded and
\* the second has just failed; the widget holds the one inserted range.
C13_Witness ==
    /\ ev.type = "loadFail" /\ Len(creates) = 2
    /\ creates[1].status = "done" /\ creates[2].status = "failed"
    /\ Len(Widget(ev.w).ranges) = rules[ev.w] + 1

Entries(w) == {i \in 1..Len(newRuleHandlers) : newRuleHandlers[i].inlineEditor = w}

\* C14, the state part: every widget that was built, closed or not, has
\* exactly one entry, which names its own click handler, and there is no
\* other entry.
C14_OneEntryPerWidget ==
    /\ \A w \in W : Cardinality(Entries(w)) = IF Built(w) THEN 1 ELSE 0
    /\ \A i \in 1..Len(newRuleHandlers) :
          newRuleHandlers[i].inlineEditor \in W
          /\ newRuleHandlers[i].handler = newRuleHandlers[i].inlineEditor

\* C14, the step part: the callback of a successful lookup appends one entry,
\* for the widget it built; every other step leaves the registry as it is.
C14_AppendOnly ==
    newRuleHandlers' =
        IF ev'.type = "lookupDone"
        THEN Append(newRuleHandlers, [inlineEditor |-> ev'.w, handler |-> ev'.w])
        ELSE newRuleHandlers

\* C14: the registry is append-only: one entry per successfully built
\* widget, added when it is built; nothing is ever removed or changed, not
\* by a picker closing, a widget being closed, a failed lookup or a rule
\* creation; no two entries share a widget.
C14_RegistryAppendOnly == []C14_OneEntryPerWidget /\ [][C14_AppendOnly]_vars

\* C14 witness: both widgets were built and then closed, the first one with
\* two stylesheets; no picker is open and the registry holds the two entries.
C14_Witness ==
    /\ closed = {1, 2} /\ ev.type = "closeWidget"
    /\ Len(newRuleHandlers) = 2 /\ Sheets(1) = 2 /\ popUps = {}

\* C15, the step part.  A request that was issued stays as it is, whatever
\* happens to the picker or the widget, until its own load ends; when the
\* load succeeds, the widget of the request, open or closed, gets the range
\* that load returned, for the selector and the path of that request,
\* appended after the ranges it holds, whatever the order of the requests.
C15_Step ==
    /\ Len(creates') >= Len(creates)
    /\ \A i \in 1..Len(creates) :
          \/ creates'[i] = creates[i]
          \/ /\ creates[i].status = "loading"
             /\ ev'.type \in {"loadDone", "loadFail"} /\ ev'.arg.index = i
             /\ creates'[i] = [creates[i] EXCEPT
                                  !.status = IF ev'.type = "loadDone" THEN "done" ELSE "failed"]
    /\ ev'.type = "loadDone" =>
          LET req == creates[ev'.arg.index]
              info == ev'.arg.newRuleInfo
              before == Widget(req.inlineEditor).ranges
          IN  cssInlineEditor'[req.inlineEditor] =
                  Ref([ranges |-> Append(before, [name |-> req.selectorName, doc |-> req.path,
                                                  startLine |-> info.range.from.line,
                                                  endLine |-> info.range.to.line]),
                       selected |-> Len(before) + 1,
                       caret |-> Ref(info.pos)])

\* C15: a rule creation that was issued is never cancelled: closing the
\* picker or the widget while the load is in flight changes nothing, and when
\* the load succeeds the range is added to that widget; two creations in
\* flight complete in the order in which their loads end, each adding the
\* range it was given.
C15_NeverCancelled == [][C15_Step]_vars

\* C15 witness: two creations were issued from the picker of a widget, the
\* widget was closed, and the load of the second has ended first: its range
\* is in the closed widget while the first is still loading.
C15_Witness ==
    /\ ev.type = "loadDone" /\ ev.arg.index = 2 /\ ev.w \in closed
    /\ creates[1].status = "loading" /\ creates[1].inlineEditor = ev.w
    /\ Sheets(ev.w) = 2 /\ ev.w \notin popUps
    /\ LastRange(ev.w).doc = creates[2].path

\* What the arrival of a stylesheet list leaves alone
exceptList == <<sessions, result, lookup, selectorName, cssInlineEditor, rules, dropdown,
                dropdownEventHandler, popUps, htmlClick, closed, newRuleHandlers, creates>>

\* C16, the step part, for the widget w whose list of n stylesheets arrives:
\* the button is enabled iff n >= 1 and is a dropdown trigger iff n >= 2; the
\* focus goes to the button of a widget that is in the page iff the lookup
\* found no rule and n >= 1, and stays where it is otherwise; the widgets,
\* the registry, the pickers, the requests and the state of every other
\* session are unchanged.
C16_ListStep ==
    ev'.type = "listDone" =>
        LET w == ev'.w
            n == Len(cssFileInfos'[w])
        IN  /\ hasClass(newRuleButton'[w], "disabled") <=> n = 0
            /\ hasClass(newRuleButton'[w], "btn-dropdown") <=> n >= 2
            /\ focused' = IF rules[w] = 0 /\ n >= 1 /\ w \notin closed THEN w ELSE focused
            /\ UNCHANGED exceptList
            /\ \A v \in W \ {w} :
                  /\ newRuleButton'[v] = newRuleButton[v]
                  /\ cssFileInfos'[v] = cssFileInfos[v]
                  /\ listQuery'[v] = listQuery[v]

\* C16: when the stylesheet list arrives the button is enabled iff the list
\* is not empty, becomes a dropdown trigger iff it has two entries or more,
\* and the focus is forced to the button iff the lookup returned no rule and
\* the list is not empty; nothing else changes.
C16_ListArrival == [][C16_ListStep]_vars

\* C16 witness: the list of the second widget arrived with two stylesheets;
\* its lookup had found no rule, and the focus is on its button, now an
\* enabled dropdown trigger; the first widget, with one rule, is built too.
C16_Witness ==
    /\ ev.type = "listDone" /\ ev.w = 2 /\ Sheets(2) = 2 /\ rules[2] = 0
    /\ focused = 2 /\ Built(1) /\ rules[1] = 1
    /\ Deref(newRuleButton[2]) = {"stylesheet-button", "btn", "btn-mini", "btn-dropdown"}

\* C17, the state part: a list is requested only for a widget that is built
\* and whose result is resolved, and for every such widget; while the list
\* is awaited the button is disabled; an activation of a disabled button
\* issues no creation, opens no picker and closes none.
C17_DisabledUntilList ==
    \A w \in W :
        /\ listQuery[w] # "none" <=> Built(w)
        /\ Built(w) => result[w] = Deferred("resolved", w)
        /\ listQuery[w] = "pending" => hasClass(newRuleButton[w], "disabled")
        /\ (Activated(w) /\ hasClass(newRuleButton[w], "disabled")) =>
              /\ ev.issued = <<>> /\ ev.cleaned = <<>>
              /\ w \notin popUps /\ dropdown[w] = NULL

\* C17, the step part: in the step that resolves the result the button is
\* created disabled and the list is requested; an activation does not change
\* whether the button is disabled.
C17_ResolveStep ==
    \A w \in W :
        /\ (result[w].state = "pending" /\ result'[w].state = "resolved") =>
              /\ hasClass(newRuleButton'[w], "disabled")
              /\ listQuery[w] = "none" /\ listQuery'[w] = "pending"
        /\ (Activated(w)' /\ hasClass(newRuleButton[w], "disabled")) =>
              /\ newRuleButton'[w] = newRuleButton[w]
              /\ popUps' = popUps /\ creates' = creates

\* C17: the button is disabled when the result is resolved and stays so
\* until the stylesheet list of the widget arrives; the list is requested
\* only once the widget is built and the result resolved; while the button
\* is disabled, a click or a routed command creates no rule and opens no
\* picker.
C17_DisabledButtonInert == []C17_DisabledUntilList /\ [][C17_ResolveStep]_vars

\* C17 witness: the list of the second widget is still awaited, the widget
\* has the focus and the command ran its click handler, to no effect, while
\* the first widget has its list already.
C17_Witness ==
    /\ ev.type = "command" /\ ev.ran = <<2>> /\ listQuery[2] = "pending"
    /\ listQuery[1] = "done" /\ Sheets(1) = 2 /\ ev.issued = <<>> /\ popUps = {}

\* C18, the state part: a widget has at most one picker: its outside-click
\* listener is registered at most once, and once while a picker is open.
C18_OnePickerPerWidget ==
    \A w \in W : Count(htmlClick, w) = IF dropdown[w] # NULL THEN 1 ELSE 0

\* C18, the step part, for an activation of the enabled button of a widget
\* with two stylesheets or more: while the picker of the widget is open the
\* activation closes it, running the cleanup of that picker once and of no
\* other, and creates nothing; while it is closed the activation opens one.
C18_ToggleStep ==
    \A w \in W :
        (Activated(w)' /\ Enabled(w) /\ Sheets(w) >= 2) =>
            IF dropdown[w] # NULL
            THEN /\ dropdown'[w] = NULL /\ w \notin popUps'
                 /\ ev'.cleaned = <<w>> /\ ev'.issued = <<>>
                 /\ popUps' = popUps \ {w}
            ELSE /\ dropdown'[w] # NULL /\ w \in popUps'
                 /\ ev'.cleaned = <<>>
                 /\ popUps' = popUps \cup {w}

\* C18: within one widget with two stylesheets or more the button is a
\* toggle: activated while the picker of the widget is open it closes the
\* picker, with its cleanup, instead of opening a second one; activated again
\* it opens a fresh one; a widget never has two pickers open.
C18_ButtonToggles == []C18_OnePickerPerWidget /\ [][C18_ToggleStep]_vars

\* C18 witness: a rule was created from the picker of a widget, so the picker
\* was open and has closed; it was opened again, and a click on the button
\* has just closed it.
C18_Witness ==
    /\ ev.type = "click" /\ ev.cleaned = <<ev.w>> /\ ev.w \in W
    /\ Sheets(ev.w) = 2 /\ popUps = {} /\ dropdown[ev.w] = NULL
    /\ creates # <<>> /\ creates[1].inlineEditor = ev.w

=============================================================================
